---- MODULE Spec2Model ----
(***************************************************************************)
(* The request pipeline of src/src/request.ts: class Request with its four *)
(* verb methods, _fetchWithLogging, _fetch and _handleResponse, and the    *)
(* two error classes RequestError and ResponseError.                       *)
(*                                                                         *)
(* One call is an async function: it runs synchronously up to its first    *)
(* await, and each continuation after an await runs to the next await      *)
(* without interruption.  Every action below is one such run.              *)
(***************************************************************************)
EXTENDS Integers, Sequences, FiniteSets, TLC

\* ------------------------------------------------------------------ bounds
\* Number of options objects (RequestInit) the callers hold.
NumOptions == 2

\* The calls: the concurrency properties are about two calls in flight.
Calls == {1, 2}
OptionIds == 1 .. NumOptions

\* ------------------------------------------------------------ JS values
Undefined == [t |-> "undefined"]
\* undefined in a place that otherwise holds a string (options.method, a URL)
Unset == "<undefined>"
JNull == [t |-> "null"]
JNumber(n) == [t |-> "number", v |-> n]
\* A JSON object: its top-level members, member values kept as JSON text.
JObject(members) == [t |-> "object", members |-> members]

DataDoc == JObject({<<"data", "{\"id\":\"1\"}">>})
DataNullDoc == JObject({<<"data", "null">>})
ErrorsDoc == JObject({<<"errors", "[{\"title\":\"Invalid\"}]">>})

\* Response bodies the transport may deliver, as text.
BodyEmpty == ""
BodyHtml == "<html>Bad Gateway</html>"
BodyNull == "null"
BodyNumber == "5"
BodyData == "{\"data\":{\"id\":\"1\"}}"
BodyDataNull == "{\"data\":null}"
BodyErrors == "{\"errors\":[{\"title\":\"Invalid\"}]}"

Bodies ==
  {BodyEmpty, BodyHtml, BodyNull, BodyNumber, BodyData, BodyDataNull, BodyErrors}
PairBodies == {BodyHtml, BodyData, BodyErrors}

SyntaxError ==
  [name |-> "SyntaxError", message |-> "Unexpected token in JSON",
   stack |-> "SyntaxError: Unexpected token in JSON"]
BodyReadError ==
  [name |-> "TypeError", message |-> "body stream failed",
   stack |-> "TypeError: body stream failed"]

\* Body.json() on a body text: the decoded value, or the SyntaxError it
\* rejects with.
JsonDecode(text) ==
  CASE text = BodyNull -> [ok |-> TRUE, value |-> JNull]
    [] text = BodyNumber -> [ok |-> TRUE, value |-> JNumber(5)]
    [] text = BodyData -> [ok |-> TRUE, value |-> DataDoc]
    [] text = BodyDataNull -> [ok |-> TRUE, value |-> DataNullDoc]
    [] text = BodyErrors -> [ok |-> TRUE, value |-> ErrorsDoc]
    [] OTHER -> [ok |-> FALSE, error |-> SyntaxError]

\* JSON.stringify(value): the compact text; undefined stays undefined.
JsonStringify(v) ==
  CASE v = JNull -> BodyNull
    [] v = JNumber(5) -> BodyNumber
    [] v = DataDoc -> BodyData
    [] v = DataNullDoc -> BodyDataNull
    [] v = ErrorsDoc -> BodyErrors
    [] OTHER -> "undefined"

\* JSON.stringify(value, null, 4): the text indented by four spaces.
JsonStringifyIndented(v) ==
  CASE v = DataDoc -> "{\n    \"data\": {\n        \"id\": \"1\"\n    }\n}"
    [] v = DataNullDoc -> "{\n    \"data\": null\n}"
    [] v = ErrorsDoc ->
         "{\n    \"errors\": [\n        {\n            \"title\": \"Invalid\"\n        }\n    ]\n}"
    [] OTHER -> JsonStringify(v)

\* String(value) as a template literal applies it.
JsToString(v) ==
  CASE v = Undefined -> "undefined"
    [] v = JNull -> "null"
    [] v.t = "number" -> JsonStringify(v)
    [] OTHER -> "[object Object]"

\* s.startsWith(p)
StartsWith(s, p) == Len(s) >= Len(p) /\ SubSeq(s, 1, Len(p)) = p

\* ------------------------------------------------------------- inputs
Verbs == {"GET", "POST", "PATCH", "DELETE"}
Urls == {"/people", "/people/1"}
PairUrls == {"/people"}
Statuses == {200, 201, 202, 204, 404, 422, 499, 500, 503}
PairStatuses == {200, 404, 500}
Payloads == {DataDoc}

\* The method a caller-supplied options object may already carry.
InitialMethods == {Unset, "DELETE"}

MakeError(name, message) ==
  [name |-> name, message |-> message, stack |-> name \o ": " \o message \o "\n    at <anonymous>"]
NoThrow == [name |-> "none", message |-> "", stack |-> ""]
HookError == MakeError("Error", "rejected by middleware")
\* What a middleware hook does when invoked: returns, or throws an Error.
HookOutcomes == {NoThrow, HookError}
\* What the transport rejects with: an error carrying a message.
NetworkErrors == {MakeError("TypeError", "Failed to fetch"), MakeError("Error", "")}
PairNetworkErrors == {MakeError("TypeError", "Failed to fetch")}

\* -------------------------------------------------------------- state
VARIABLES
  options,   \* the options objects: options[o] = [method, body]
  pc,        \* where each call is: idle, awaitFetch, awaitJson, awaitHandle,
             \* resolved, rejected
  verb,      \* the verb method the call was issued through
  url,       \* the call's url argument
  opt,       \* the options object the call was passed (0 before the call)
  resp,      \* the response object the transport handed to the call
  json,      \* the local variable json of _handleResponse
  thrown,    \* the error the call's promise rejected with
  returned,  \* the value the call's promise resolved with
  trace      \* what the call did to its collaborators, in order

vars == <<options, pc, verb, url, opt, resp, json, thrown, returned, trace>>

NoResponse == [exists |-> FALSE]
NoError == [kind |-> "none"]
\* A reference to the response object of call c.
ResponseRef(c) == [t |-> "response", of |-> c]

\* new Response as the transport delivers it.  readFails: every read of the
\* body rejects, whatever the text.
NewResponse(status, body, readFails) ==
  [exists |-> TRUE, status |-> status, body |-> body, readFails |-> readFails,
   bodyUsed |-> FALSE, jsonPayload |-> Undefined]

Event(ev, arg) == [ev |-> ev, arg |-> arg]

\* util/colorize: wraps the text in the colour's escape codes.
Colorize(color, text) == "<" \o color \o ">" \o text \o "</" \o color \o ">"

\* ------------------------------------------------------------- errors
RequestError(message, u, o, originalError) ==
  [kind |-> "RequestError", message |-> message, stack |-> originalError.stack,
   url |-> u, options |-> o, originalError |-> originalError]

\* message is Unset when the argument is omitted; originalError is Undefined
\* when omitted.
ResponseError(response, message, originalError) ==
  [kind |-> "ResponseError",
   message |-> IF message = Unset \/ message = "" THEN "Invalid Response" ELSE message,
   response |-> response, originalError |-> originalError]

\* What evaluating json.data on null throws.
NullDataTypeError ==
  [kind |-> "TypeError", message |-> "Cannot read properties of null (reading 'data')"]

\* ------------------------------------------------- _handleResponse, pure
\* Mutant: || where the code has &&.
WasDeleteOr(method, status) == method = "DELETE" \/ status \in {202, 204, 200}

\* Mutant: 204 missing from the list.
WasDeleteNo204(method, status) == method = "DELETE" /\ status \in {202, 200}

\* lines 109-111
WasDelete(method, status) == method = "DELETE" /\ status \in {202, 204, 200}

\* json.data === undefined, for a json that is not null
DataUndefined(j) ==
  IF j.t = "object" THEN ~ \E m \in j.members : m[1] = "data" ELSE TRUE

\* Mutant: > 500 where the code has >= 500.
ClassifyAbove500(status, j) ==
  IF status > 500 THEN "ServerError"
  ELSE IF status # 422 /\ j = JNull THEN "TypeError"
  ELSE IF status # 422 /\ DataUndefined(j)
       THEN IF status = 404 THEN "NotFound" ELSE "InvalidJson"
  ELSE "Decorate"

\* Mutant: the 404 branch is missing.
ClassifyNotFoundLost(status, j) ==
  IF status >= 500 THEN "ServerError"
  ELSE IF status # 422 /\ j = JNull THEN "TypeError"
  ELSE IF status # 422 /\ DataUndefined(j) THEN "InvalidJson"
  ELSE "Decorate"

\* Mutant: 422 is not exempt from the data check.
ClassifyNo422(status, j) ==
  IF status >= 500 THEN "ServerError"
  ELSE IF j = JNull THEN "TypeError"
  ELSE IF DataUndefined(j)
       THEN IF status = 404 THEN "NotFound" ELSE "InvalidJson"
  ELSE "Decorate"

\* lines 134-147: what the status/content classification does.
Classify(status, j) ==
  IF status >= 500 THEN "ServerError"
  ELSE IF status # 422 /\ j = JNull THEN "TypeError"
  ELSE IF status # 422 /\ DataUndefined(j)
       THEN IF status = 404 THEN "NotFound" ELSE "InvalidJson"
  ELSE "Decorate"

\* response.clone().json(): the clone carries the same body as the original.
CloneJson(r) ==
  IF r.readFails THEN [ok |-> FALSE, error |-> BodyReadError] ELSE JsonDecode(r.body)

\* Mutant: the message of line 143 used at line 120.
InvalidJsonMessageNoColon(j) == "invalid json"

\* Mutant: json() is called on the response itself, which uses its body up.
AfterDirectRead(r) == [r EXCEPT !.bodyUsed = TRUE]

\* The response object after response.clone().json() (line 116) or
\* response.clone().text() (line 64): the read consumed the clone's body,
\* the original is as it was.
AfterRead(r) == r

\* response.clone().json() started (line 116), as the transport sees it.
ReadJson(tr) == tr \o <<Event("clone", Undefined), Event("json", Undefined)>>

\* line 120
InvalidJsonMessage(j) == "invalid json: " \o JsToString(j)

\* _logInvalidJSON: the clone's text() promise is interpolated unawaited.
LogInvalidJSON(tr) ==
  tr \o <<Event("clone", Undefined), Event("text", Undefined),
          Event("logger.debug", [text |-> "Invalid Response JSON: " \o "[object Promise]"])>>

\* ------------------------------------------------------------ actions
Init ==
  /\ options \in [OptionIds -> [method : InitialMethods, body : {Unset}]]
  /\ pc = [c \in Calls |-> "idle"]
  /\ verb = [c \in Calls |-> Unset]
  /\ url = [c \in Calls |-> Unset]
  /\ opt = [c \in Calls |-> 0]
  /\ resp = [c \in Calls |-> NoResponse]
  /\ json = [c \in Calls |-> Undefined]
  /\ thrown = [c \in Calls |-> NoError]
  /\ returned = [c \in Calls |-> Undefined]
  /\ trace = [c \in Calls |-> <<>>]

\* _logRequest(options.method || "UNDEFINED METHOD", url)
LogRequest(method, u) ==
  Event("logger.info",
        [text |-> Colorize("cyan", (IF method = Unset \/ method = ""
                                    THEN "UNDEFINED METHOD" ELSE method) \o ": ")
                  \o Colorize("magenta", u)])

\* Mutant: the transport is invoked before beforeFetch runs.
FetchTransportFirst(c, u, o, opts, bf, tr) ==
  LET t0 == Append(tr, Event("fetch", [url |-> u, method |-> opts[o].method,
                                       body |-> opts[o].body]))
      t1 == Append(t0, Event("beforeFetch", [url |-> u, options |-> o, threw |-> bf]))
  IN  /\ options' = opts
      /\ trace' = [trace EXCEPT ![c] = t1]
      /\ IF bf # NoThrow
         THEN /\ thrown' = [thrown EXCEPT ![c] =
                   RequestError("beforeFetch failed; review middleware.beforeFetch stack",
                                u, o, bf)]
              /\ pc' = [pc EXCEPT ![c] = "rejected"]
         ELSE /\ thrown' = thrown
              /\ pc' = [pc EXCEPT ![c] = "awaitFetch"]

\* _fetch up to its first await (lines 80-95): beforeFetch, then the
\* transport is invoked with the options as they are now.  opts is the
\* options heap after the verb method's writes, tr the call's trace so far.
Fetch(c, u, o, opts, bf, tr) ==
  LET t1 == Append(tr, Event("beforeFetch", [url |-> u, options |-> o, threw |-> bf]))
  IN  /\ options' = opts
      /\ IF bf # NoThrow
         THEN /\ thrown' = [thrown EXCEPT ![c] =
                   RequestError("beforeFetch failed; review middleware.beforeFetch stack",
                                u, o, bf)]
              /\ trace' = [trace EXCEPT ![c] = t1]
              /\ pc' = [pc EXCEPT ![c] = "rejected"]
         ELSE /\ thrown' = thrown
              /\ trace' = [trace EXCEPT ![c] =
                   Append(t1, Event("fetch", [url |-> u, method |-> opts[o].method,
                                              body |-> opts[o].body]))]
              /\ pc' = [pc EXCEPT ![c] = "awaitFetch"]

\* Mutant: the outbound request is logged after _fetch was called.
FetchWithLoggingLogAfter(c, v, u, o, opts, bf) ==
  LET t1 == <<Event("beforeFetch", [url |-> u, options |-> o, threw |-> bf])>>
      t2 == Append(t1, Event("fetch", [url |-> u, method |-> opts[o].method,
                                       body |-> opts[o].body]))
  IN  /\ pc[c] = "idle"
      /\ verb' = [verb EXCEPT ![c] = v]
      /\ url' = [url EXCEPT ![c] = u]
      /\ opt' = [opt EXCEPT ![c] = o]
      /\ options' = opts
      /\ IF bf # NoThrow
         THEN /\ thrown' = [thrown EXCEPT ![c] =
                   RequestError("beforeFetch failed; review middleware.beforeFetch stack",
                                u, o, bf)]
              /\ trace' = [trace EXCEPT ![c] = t1]
              /\ pc' = [pc EXCEPT ![c] = "rejected"]
         ELSE /\ thrown' = thrown
              /\ trace' = [trace EXCEPT ![c] = Append(t2, LogRequest(opts[o].method, u))]
              /\ pc' = [pc EXCEPT ![c] = "awaitFetch"]
      /\ UNCHANGED <<resp, json, returned>>

\* _fetchWithLogging up to its first await (lines 71-73)
FetchWithLogging(c, v, u, o, opts, bf) ==
  /\ pc[c] = "idle"
  /\ verb' = [verb EXCEPT ![c] = v]
  /\ url' = [url EXCEPT ![c] = u]
  /\ opt' = [opt EXCEPT ![c] = o]
  /\ Fetch(c, u, o, opts, bf, <<LogRequest(opts[o].method, u)>>)
  /\ UNCHANGED <<resp, json, returned>>

\* Mutant: get leaves options.method as the caller supplied it.
GetKeepsMethod(c, u, o, bf) == FetchWithLogging(c, "GET", u, o, options, bf)

\* lines 21-24
Get(c, u, o, bf) ==
  FetchWithLogging(c, "GET", u, o, [options EXCEPT ![o].method = "GET"], bf)

\* lines 26-35
Post(c, u, payload, o, bf) ==
  FetchWithLogging(c, "POST", u, o,
    [options EXCEPT ![o].method = "POST", ![o].body = JsonStringify(payload)], bf)

\* lines 37-46
Patch(c, u, payload, o, bf) ==
  FetchWithLogging(c, "PATCH", u, o,
    [options EXCEPT ![o].method = "PATCH", ![o].body = JsonStringify(payload)], bf)

\* Mutant: delete leaves options.method as the caller supplied it.
DeleteKeepsMethod(c, u, o, bf) == FetchWithLogging(c, "DELETE", u, o, options, bf)

\* lines 48-51
Delete(c, u, o, bf) ==
  FetchWithLogging(c, "DELETE", u, o, [options EXCEPT ![o].method = "DELETE"], bf)

\* Mutant: the catch calls the transport again instead of throwing.
FetchRejectsRetries(c, e) ==
  /\ pc[c] = "awaitFetch"
  /\ trace' = [trace EXCEPT ![c] =
       @ \o <<Event("fetchRejected", [error |-> e]),
               Event("fetch", [url |-> url[c], method |-> options[opt[c]].method,
                               body |-> options[opt[c]].body])>>]
  /\ UNCHANGED <<options, pc, verb, url, opt, resp, json, thrown, returned>>

\* Mutant: the catch rethrows without the transport error's message.
FetchRejectsNoMessage(c, e) ==
  /\ pc[c] = "awaitFetch"
  /\ thrown' = [thrown EXCEPT ![c] = ResponseError(JNull, Unset, e)]
  /\ pc' = [pc EXCEPT ![c] = "rejected"]
  /\ trace' = [trace EXCEPT ![c] = Append(@, Event("fetchRejected", [error |-> e]))]
  /\ UNCHANGED <<options, verb, url, opt, resp, json, returned>>

\* The transport call fails: the catch of lines 96-98.
FetchRejects(c, e) ==
  /\ pc[c] = "awaitFetch"
  /\ thrown' = [thrown EXCEPT ![c] = ResponseError(JNull, e.message, e)]
  /\ pc' = [pc EXCEPT ![c] = "rejected"]
  /\ trace' = [trace EXCEPT ![c] = Append(@, Event("fetchRejected", [error |-> e]))]
  /\ UNCHANGED <<options, verb, url, opt, resp, json, returned>>

\* Mutant: requestOptions is not the call's own argument but state shared
\* by the calls of the instance, so another call's options are read.
HandleResponseSharedOptions(c, r) ==
  LET others == {d \in Calls \ {c} : opt[d] # 0}
      o == IF others # {} THEN opt[CHOOSE d \in others : TRUE] ELSE opt[c]
      t1 == Append(trace[c], Event("fetchResolved",
              [response |-> ResponseRef(c), methodRead |-> options[o].method]))
  IN  IF WasDelete(options[o].method, r.status)
      THEN /\ pc' = [pc EXCEPT ![c] = "awaitHandle"]
           /\ trace' = [trace EXCEPT ![c] = t1]
           /\ resp' = [resp EXCEPT ![c] = r]
      ELSE /\ pc' = [pc EXCEPT ![c] = "awaitJson"]
           /\ trace' = [trace EXCEPT ![c] = ReadJson(t1)]
           /\ resp' = [resp EXCEPT ![c] = AfterRead(r)]

\* _handleResponse up to its first await (lines 109-116), on response r.
HandleResponse(c, r) ==
  LET t1 == Append(trace[c], Event("fetchResolved",
              [response |-> ResponseRef(c), methodRead |-> options[opt[c]].method]))
  IN  IF WasDelete(options[opt[c]].method, r.status)
      THEN /\ pc' = [pc EXCEPT ![c] = "awaitHandle"]
           /\ trace' = [trace EXCEPT ![c] = t1]
           /\ resp' = [resp EXCEPT ![c] = r]
      ELSE /\ pc' = [pc EXCEPT ![c] = "awaitJson"]
           /\ trace' = [trace EXCEPT ![c] = ReadJson(t1)]
           /\ resp' = [resp EXCEPT ![c] = AfterRead(r)]

\* The transport call delivers a response: line 95 resumes, line 100 calls
\* _handleResponse.
FetchResolves(c, status, body, readFails) ==
  /\ pc[c] = "awaitFetch"
  /\ HandleResponse(c, NewResponse(status, body, readFails))
  /\ UNCHANGED <<options, verb, url, opt, json, thrown, returned>>

\* Mutant: the catch swallows the error and waits for a read that never
\* comes.
JsonRejectsHangs(c) ==
  /\ pc[c] = "awaitJson"
  /\ ~ CloneJson(resp[c]).ok
  /\ UNCHANGED vars

\* The clone's json() rejects: the catch of lines 117-121.
JsonRejects(c) ==
  /\ pc[c] = "awaitJson"
  /\ ~ CloneJson(resp[c]).ok
  /\ trace' = [trace EXCEPT ![c] = LogInvalidJSON(@)]
  /\ thrown' = [thrown EXCEPT ![c] =
       ResponseError(ResponseRef(c), InvalidJsonMessage(json[c]), CloneJson(resp[c]).error)]
  /\ pc' = [pc EXCEPT ![c] = "rejected"]
  /\ UNCHANGED <<options, verb, url, opt, resp, json, returned>>

\* Mutant: jsonPayload is attached before the status/content checks.
ClassificationDecorateFirst(c, j, tr) ==
  LET k == Classify(resp[c].status, j)
      failed(e, t) ==
        /\ thrown' = [thrown EXCEPT ![c] = e]
        /\ pc' = [pc EXCEPT ![c] = "rejected"]
        /\ trace' = [trace EXCEPT ![c] = t]
  IN  /\ resp' = [resp EXCEPT ![c].jsonPayload = j]
      /\ CASE k = "ServerError" ->
               failed(ResponseError(ResponseRef(c), "Server Error", Undefined), tr)
          [] k = "TypeError" -> failed(NullDataTypeError, tr)
          [] k = "NotFound" ->
               failed(ResponseError(ResponseRef(c), "record not found", Undefined), tr)
          [] k = "InvalidJson" ->
               failed(ResponseError(ResponseRef(c), "invalid json", Undefined),
                      LogInvalidJSON(tr))
          [] OTHER ->
               /\ trace' = [trace EXCEPT ![c] = Append(tr, Event("decorate", [json |-> j]))]
               /\ pc' = [pc EXCEPT ![c] = "awaitHandle"]
               /\ thrown' = thrown

\* Lines 134-147 on the parsed value j, after afterFetch returned.
Classification(c, j, tr) ==
  LET k == Classify(resp[c].status, j)
  IN  CASE k = "ServerError" ->
             /\ thrown' = [thrown EXCEPT ![c] =
                  ResponseError(ResponseRef(c), "Server Error", Undefined)]
             /\ pc' = [pc EXCEPT ![c] = "rejected"]
             /\ trace' = [trace EXCEPT ![c] = tr]
             /\ resp' = resp
        [] k = "TypeError" ->
             /\ thrown' = [thrown EXCEPT ![c] = NullDataTypeError]
             /\ pc' = [pc EXCEPT ![c] = "rejected"]
             /\ trace' = [trace EXCEPT ![c] = tr]
             /\ resp' = resp
        [] k = "NotFound" ->
             /\ thrown' = [thrown EXCEPT ![c] =
                  ResponseError(ResponseRef(c), "record not found", Undefined)]
             /\ pc' = [pc EXCEPT ![c] = "rejected"]
             /\ trace' = [trace EXCEPT ![c] = tr]
             /\ resp' = resp
        [] k = "InvalidJson" ->
             /\ thrown' = [thrown EXCEPT ![c] =
                  ResponseError(ResponseRef(c), "invalid json", Undefined)]
             /\ pc' = [pc EXCEPT ![c] = "rejected"]
             /\ trace' = [trace EXCEPT ![c] = LogInvalidJSON(tr)]
             /\ resp' = resp
        [] OTHER ->
             /\ resp' = [resp EXCEPT ![c].jsonPayload = j]
             /\ trace' = [trace EXCEPT ![c] = Append(tr, Event("decorate", [json |-> j]))]
             /\ pc' = [pc EXCEPT ![c] = "awaitHandle"]
             /\ thrown' = thrown

\* Mutant: the status/content checks run before afterFetch, which is only
\* reached by a response that passes them.
JsonResolvesClassifyFirst(c, af) ==
  /\ pc[c] = "awaitJson"
  /\ CloneJson(resp[c]).ok
  /\ LET j == CloneJson(resp[c]).value
         t1 == Append(trace[c], Event("afterFetch", [json |-> j, threw |-> af]))
     IN  /\ json' = [json EXCEPT ![c] = j]
         /\ IF Classify(resp[c].status, j) # "Decorate"
            THEN Classification(c, j, trace[c])
            ELSE IF af # NoThrow
            THEN /\ thrown' = [thrown EXCEPT ![c] =
                      ResponseError(ResponseRef(c),
                        "afterFetch failed; review middleware.afterFetch stack", af)]
                 /\ pc' = [pc EXCEPT ![c] = "rejected"]
                 /\ trace' = [trace EXCEPT ![c] = t1]
                 /\ resp' = resp
            ELSE Classification(c, j, t1)
  /\ UNCHANGED <<options, verb, url, opt, returned>>

\* The clone's json() delivers a value: line 116 resumes and _handleResponse
\* runs to its end (lines 123-147).
JsonResolves(c, af) ==
  /\ pc[c] = "awaitJson"
  /\ CloneJson(resp[c]).ok
  /\ LET j == CloneJson(resp[c]).value
         t1 == Append(trace[c], Event("afterFetch", [json |-> j, threw |-> af]))
     IN  /\ json' = [json EXCEPT ![c] = j]
         /\ IF af # NoThrow
            THEN /\ thrown' = [thrown EXCEPT ![c] =
                      ResponseError(ResponseRef(c),
                        "afterFetch failed; review middleware.afterFetch stack", af)]
                 /\ pc' = [pc EXCEPT ![c] = "rejected"]
                 /\ trace' = [trace EXCEPT ![c] = t1]
                 /\ resp' = resp
            ELSE Classification(c, j, t1)
  /\ UNCHANGED <<options, verb, url, opt, returned>>

\* _handleResponse returned: _fetch returns the response (line 102) and
\* _fetchWithLogging logs it and returns it (lines 75-77).
LogResponse(c) ==
  /\ pc[c] = "awaitHandle"
  /\ trace' = [trace EXCEPT ![c] =
       Append(@, Event("logger.debug",
         [text |-> Colorize("bold", JsonStringifyIndented(resp[c].jsonPayload))]))]
  /\ returned' = [returned EXCEPT ![c] = ResponseRef(c)]
  /\ pc' = [pc EXCEPT ![c] = "resolved"]
  /\ UNCHANGED <<options, verb, url, opt, resp, json, thrown>>

\* One step of call c, its inputs drawn from the given sets.
Step(c, U, S, B, R, N) ==
  \/ \E u \in U, o \in OptionIds, bf \in HookOutcomes : Get(c, u, o, bf)
  \/ \E u \in U, p \in Payloads, o \in OptionIds, bf \in HookOutcomes : Post(c, u, p, o, bf)
  \/ \E u \in U, p \in Payloads, o \in OptionIds, bf \in HookOutcomes : Patch(c, u, p, o, bf)
  \/ \E u \in U, o \in OptionIds, bf \in HookOutcomes : Delete(c, u, o, bf)
  \/ \E e \in N : FetchRejects(c, e)
  \/ \E st \in S, b \in B, rf \in R : FetchResolves(c, st, b, rf)
  \/ JsonRejects(c)
  \/ \E af \in HookOutcomes : JsonResolves(c, af)
  \/ LogResponse(c)

\* One call at a time, over every input.
Next == Step(1, Urls, Statuses, Bodies, BOOLEAN, NetworkErrors)
Spec == Init /\ [][Next]_vars

\* The awaited operations of a call complete: the transport call settles
\* (line 95), the body read settles (line 116), and the continuation of a
\* settled promise is run (lines 100-102, 73-77).
TransportSettles ==
  \/ \E e \in NetworkErrors : FetchRejects(1, e)
  \/ \E st \in Statuses, b \in Bodies, rf \in BOOLEAN : FetchResolves(1, st, b, rf)
BodyReadSettles == JsonRejects(1) \/ \E af \in HookOutcomes : JsonResolves(1, af)
SpecLive ==
  /\ Spec
  /\ WF_vars(TransportSettles)
  /\ WF_vars(BodyReadSettles)
  /\ WF_vars(LogResponse(1))

\* Two calls in flight together, interleaved at their awaits.
NextPair == \E c \in Calls : Step(c, PairUrls, PairStatuses, PairBodies, {FALSE}, PairNetworkErrors)
SpecPair == Init /\ [][NextPair]_vars

\* ------------------------------------------------- reading the state
Done(c) == pc[c] \in {"resolved", "rejected"}
Events(c, ev) == {i \in DOMAIN trace[c] : trace[c][i].ev = ev}
Count(c, ev) == Cardinality(Events(c, ev))
\* The value a hook threw in call c, NoThrow when it returned.
BeforeThrew(c) == \E i \in Events(c, "beforeFetch") : trace[c][i].arg.threw # NoThrow
AfterThrew(c) == \E i \in Events(c, "afterFetch") : trace[c][i].arg.threw # NoThrow
HasResponse(c) == resp[c].exists
\* The call is a delete whose response status is 200, 202 or 204.
DeleteAllowed(c) == verb[c] = "DELETE" /\ HasResponse(c) /\ resp[c].status \in {200, 202, 204}
\* A direct parse of the response body succeeds / its value.
BodyParses(c) == HasResponse(c) /\ ~ resp[c].readFails /\ JsonDecode(resp[c].body).ok
ParsedBody(c) == JsonDecode(resp[c].body).value
IsTyped(e) == e.kind \in {"RequestError", "ResponseError"}

\* ------------------------------------------------------------- claims

\* C1: if middleware.beforeFetch throws, the transport is invoked zero times
\* for that call and the call rejects with a RequestError whose originalError
\* is the thrown error and whose url and options are those of the call.
C1_BeforeFetchFailure ==
  \A c \in Calls :
    BeforeThrew(c) =>
      /\ Count(c, "fetch") = 0
      /\ pc[c] = "rejected"
      /\ thrown[c].kind = "RequestError"
      /\ \E i \in Events(c, "beforeFetch") : thrown[c].originalError = trace[c][i].arg.threw
      /\ thrown[c].url = url[c]
      /\ thrown[c].options = opt[c]
      /\ returned[c] = Undefined

C1_Witness ==
  \E c \in Calls : BeforeThrew(c) /\ verb[c] = "POST" /\ pc[c] = "rejected"

\* C2: every completed call has exactly one outcome: it resolved with its
\* response, or it rejected with a RequestError or a ResponseError, never
\* both and never with another kind of error.
C2_OneTypedOutcome ==
  \A c \in Calls :
    /\ pc[c] = "resolved" => returned[c] = ResponseRef(c) /\ thrown[c] = NoError
    /\ pc[c] = "rejected" => returned[c] = Undefined /\ IsTyped(thrown[c])
    /\ ~ Done(c) => returned[c] = Undefined /\ thrown[c] = NoError

\* C3 as claimed: every call that resolves carries a jsonPayload equal to
\* the direct decode of the response body.
C3_EveryResolvedCallDecorated ==
  \A c \in Calls :
    pc[c] = "resolved" =>
      /\ resp[c].jsonPayload # Undefined
      /\ BodyParses(c)
      /\ resp[c].jsonPayload = ParsedBody(c)

\* C3 amended: every call that resolves, other than a delete whose status
\* is 200, 202 or 204, carries a jsonPayload equal to the direct decode of
\* the response body; such a delete resolves with no jsonPayload, its body
\* never read.
C3_ResolvedCallDecorated ==
  \A c \in Calls :
    pc[c] = "resolved" =>
      IF DeleteAllowed(c)
      THEN resp[c].jsonPayload = Undefined /\ Count(c, "json") = 0
      ELSE /\ resp[c].jsonPayload # Undefined
           /\ BodyParses(c)
           /\ resp[c].jsonPayload = ParsedBody(c)

C3_Witness ==
  \E c \in Calls :
    /\ pc[c] = "resolved" /\ verb[c] = "DELETE" /\ resp[c].status = 201
    /\ resp[c].jsonPayload = DataNullDoc

\* C4: a delete call whose response status is 200, 202 or 204 attempts no
\* read of the response body and ends without error, even when every body
\* read would fail.
C4_DeleteShortCircuit ==
  \A c \in Calls :
    DeleteAllowed(c) =>
      /\ Count(c, "clone") = 0 /\ Count(c, "json") = 0 /\ Count(c, "text") = 0
      /\ pc[c] \in {"awaitHandle", "resolved"}
      /\ thrown[c] = NoError

C4_Witness ==
  \E c \in Calls :
    DeleteAllowed(c) /\ resp[c].status = 204 /\ resp[c].readFails /\ pc[c] = "resolved"

\* C5 as claimed: every call whose response status is >= 500 rejects with a
\* ResponseError whose message is "Server Error".
C5_ServerErrorAlways ==
  \A c \in Calls :
    HasResponse(c) /\ resp[c].status >= 500 /\ Done(c) =>
      /\ pc[c] = "rejected"
      /\ thrown[c].kind = "ResponseError"
      /\ thrown[c].message = "Server Error"

\* C5 amended: every call whose response status is >= 500 rejects with a
\* ResponseError carrying the response; its message is "Server Error" when
\* the body parsed as JSON and afterFetch did not throw, a data field in the
\* body notwithstanding; "invalid json: undefined" when the body did not
\* parse; the afterFetch message when afterFetch threw.
C5_ServerError ==
  \A c \in Calls :
    HasResponse(c) /\ resp[c].status >= 500 /\ Done(c) =>
      /\ pc[c] = "rejected"
      /\ thrown[c].kind = "ResponseError"
      /\ thrown[c].response = ResponseRef(c)
      /\ thrown[c].message =
           IF ~ BodyParses(c) THEN "invalid json: undefined"
           ELSE IF AfterThrew(c)
                THEN "afterFetch failed; review middleware.afterFetch stack"
           ELSE "Server Error"

C5_Witness ==
  \E c \in Calls :
    /\ HasResponse(c) /\ resp[c].status = 500 /\ resp[c].body = BodyData
    /\ ~ resp[c].readFails /\ ~ AfterThrew(c) /\ pc[c] = "rejected"

C7_UnprocessableAccepted ==
  \A c \in Calls :
    /\ HasResponse(c) /\ resp[c].status = 422 /\ Done(c)
    /\ BodyParses(c) /\ ParsedBody(c).t = "object" /\ DataUndefined(ParsedBody(c))
    /\ ~ AfterThrew(c)
    => /\ pc[c] = "resolved"
       /\ returned[c] = ResponseRef(c)
       /\ resp[c].jsonPayload = ParsedBody(c)

C7_Witness ==
  \E c \in Calls :
    /\ HasResponse(c) /\ resp[c].status = 422 /\ resp[c].body = BodyErrors
    /\ ~ resp[c].readFails /\ pc[c] = "resolved" /\ resp[c].jsonPayload = ErrorsDoc

\* C8: for a get, post or patch call, and a delete call whose status is not
\* 200, 202 or 204, a response body that fails to parse as JSON makes the
\* call reject with a ResponseError carrying the response, whose message
\* begins with "invalid json:", whatever the status.
C8_InvalidJsonBody ==
  \A c \in Calls :
    HasResponse(c) /\ ~ DeleteAllowed(c) /\ ~ BodyParses(c) /\ Done(c) =>
      /\ pc[c] = "rejected"
      /\ thrown[c].kind = "ResponseError"
      /\ thrown[c].response = ResponseRef(c)
      /\ StartsWith(thrown[c].message, "invalid json:")

C8_Witness ==
  \E c \in Calls :
    /\ HasResponse(c) /\ verb[c] = "DELETE" /\ resp[c].status = 500
    /\ resp[c].body = BodyHtml /\ pc[c] = "rejected"

\* ---------------------------------------------- two calls in flight
Issued(c) == opt[c] # 0
\* Each call was given an options object of its own.
OwnOptions == \A c, d \in Calls : c # d /\ Issued(c) /\ Issued(d) => opt[c] # opt[d]

Outcome(state, kind, message, payload) ==
  [state |-> state, kind |-> kind, message |-> message, payload |-> payload]

\* What call c ended with.
Observed(c) ==
  Outcome(pc[c], thrown[c].kind,
          IF thrown[c] = NoError THEN "" ELSE thrown[c].message,
          IF HasResponse(c) THEN resp[c].jsonPayload ELSE Undefined)

TransportRejected(c) == Count(c, "fetchRejected") > 0
TransportError(c) == trace[c][CHOOSE i \in Events(c, "fetchRejected") : TRUE].arg.error

\* What call c ends with when it runs alone, by lines 80-148 applied in
\* order to what the call was given: its verb, and what its hooks, its
\* transport call and its body read did.
Alone(c) ==
  IF BeforeThrew(c)
    THEN Outcome("rejected", "RequestError",
                 "beforeFetch failed; review middleware.beforeFetch stack", Undefined)
  ELSE IF TransportRejected(c)
    THEN Outcome("rejected", "ResponseError",
                 ResponseError(JNull, TransportError(c).message, TransportError(c)).message,
                 Undefined)
  ELSE IF WasDelete(verb[c], resp[c].status)
    THEN Outcome("resolved", "none", "", Undefined)
  ELSE IF ~ CloneJson(resp[c]).ok
    THEN Outcome("rejected", "ResponseError", InvalidJsonMessage(Undefined), Undefined)
  ELSE IF AfterThrew(c)
    THEN Outcome("rejected", "ResponseError",
                 "afterFetch failed; review middleware.afterFetch stack", Undefined)
  ELSE LET j == CloneJson(resp[c]).value
           k == Classify(resp[c].status, j)
       IN  CASE k = "ServerError" -> Outcome("rejected", "ResponseError", "Server Error", Undefined)
             [] k = "TypeError" -> Outcome("rejected", "TypeError", NullDataTypeError.message, Undefined)
             [] k = "NotFound" -> Outcome("rejected", "ResponseError", "record not found", Undefined)
             [] k = "InvalidJson" -> Outcome("rejected", "ResponseError", "invalid json", Undefined)
             [] OTHER -> Outcome("resolved", "none", "", j)

\* C9: when each of the two calls is given its own options object, then
\* under every interleaving of their awaits each call ends with the outcome
\* (resolved or rejected, the error's kind and message, the payload) it has
\* when run alone.
C9_ConcurrentCallsIndependent ==
  OwnOptions => \A c \in Calls : Done(c) => Observed(c) = Alone(c)

\* Both calls have ended, one a delete short-circuited while the other, a
\* get issued before the delete's response came, had its body parsed.
C9_Witness ==
  /\ OwnOptions /\ Done(1) /\ Done(2)
  /\ verb[1] = "GET" /\ pc[1] = "resolved" /\ resp[1].jsonPayload = DataDoc
  /\ verb[2] = "DELETE" /\ pc[2] = "resolved" /\ resp[2].status = 200
  /\ resp[2].jsonPayload = Undefined

\* The two calls are gets of one URL, the hooks and the transport did the
\* same for both.
SameGetTwice ==
  /\ verb[1] = "GET" /\ verb[2] = "GET" /\ url[1] = url[2]
  /\ options[opt[1]] = options[opt[2]]
  /\ BeforeThrew(1) = BeforeThrew(2)
  /\ TransportRejected(1) = TransportRejected(2)
  /\ TransportRejected(1) => TransportError(1) = TransportError(2)
  /\ HasResponse(1) = HasResponse(2)
  /\ HasResponse(1) =>
       /\ resp[1].status = resp[2].status /\ resp[1].body = resp[2].body
       /\ resp[1].readFails = resp[2].readFails
  /\ AfterThrew(1) = AfterThrew(2)

\* The response both calls got is one a get succeeds on.
GoodResponse(c) ==
  /\ HasResponse(c) /\ resp[c].status < 500 /\ BodyParses(c)
  /\ ParsedBody(c) # JNull /\ ~ DataUndefined(ParsedBody(c)) /\ ~ AfterThrew(c)

\* C10: two gets with the same URL and options (one options object or two
\* equal ones) against a transport and hooks that do the same for both end
\* the same way; on a response a get succeeds on both resolve, each with its
\* own response object, with equal jsonPayloads that are the decoded body;
\* and the method either call reads from its options stays "GET" whatever
\* the other call wrote.
C10_GetTwice ==
  Issued(1) /\ Issued(2) /\ SameGetTwice =>
    /\ \A c \in Calls : options[opt[c]].method = "GET"
    /\ Done(1) /\ Done(2) =>
         /\ Observed(1) = Observed(2)
         /\ GoodResponse(1) =>
              /\ pc[1] = "resolved" /\ pc[2] = "resolved"
              /\ returned[1] = ResponseRef(1) /\ returned[2] = ResponseRef(2)
              /\ returned[1] # returned[2]
              /\ resp[1].jsonPayload = ParsedBody(1)
              /\ resp[2].jsonPayload = ParsedBody(2)

C10_Witness ==
  /\ Issued(1) /\ Issued(2) /\ SameGetTwice /\ opt[1] = opt[2]
  /\ pc[1] = "resolved" /\ pc[2] = "resolved"
  /\ resp[1].status = 200 /\ resp[1].jsonPayload = DataDoc /\ resp[2].jsonPayload = DataDoc

\* ------------------------------------------------ failures, step by step

\* C11 as claimed: when the transport call rejects, the call rejects with a
\* ResponseError whose response is null, whose message is the transport
\* error's message and whose originalError is the transport error, with no
\* body read and no afterFetch.
C11_TransportFailureKeepsMessage ==
  \A c \in Calls :
    TransportRejected(c) =>
      /\ pc[c] = "rejected" /\ thrown[c].kind = "ResponseError"
      /\ thrown[c].response = JNull
      /\ thrown[c].message = TransportError(c).message
      /\ thrown[c].originalError = TransportError(c)
      /\ Count(c, "json") = 0 /\ Count(c, "text") = 0 /\ Count(c, "afterFetch") = 0

\* C11 amended: as claimed, except that the message is the transport
\* error's message when that is not empty and "Invalid Response" when it is.
C11_TransportFailure ==
  \A c \in Calls :
    TransportRejected(c) =>
      /\ pc[c] = "rejected" /\ thrown[c].kind = "ResponseError"
      /\ thrown[c].response = JNull
      /\ thrown[c].message =
           IF TransportError(c).message = "" THEN "Invalid Response"
           ELSE TransportError(c).message
      /\ thrown[c].originalError = TransportError(c)
      /\ ~ HasResponse(c)
      /\ Count(c, "clone") = 0 /\ Count(c, "json") = 0 /\ Count(c, "text") = 0
      /\ Count(c, "afterFetch") = 0

C11_Witness ==
  \E c \in Calls :
    /\ TransportRejected(c) /\ pc[c] = "rejected"
    /\ thrown[c].message = "Failed to fetch" /\ verb[c] = "PATCH"

\* The body of call c was read and parsed, and the continuation of line 116
\* has run.
ParsedAndResumed(c) ==
  HasResponse(c) /\ Count(c, "json") = 1 /\ pc[c] # "awaitJson" /\ CloneJson(resp[c]).ok

\* C12: once the body parsed, afterFetch is invoked whatever the status, and
\* if it throws the call rejects with a ResponseError carrying the response,
\* the fixed afterFetch message and the thrown error as originalError, ahead
\* of the server-error, 404 and missing-data checks.
C12_AfterFetchFailure ==
  \A c \in Calls :
    /\ ParsedAndResumed(c) => Count(c, "afterFetch") = 1
    /\ AfterThrew(c) =>
         /\ pc[c] = "rejected" /\ thrown[c].kind = "ResponseError"
         /\ thrown[c].response = ResponseRef(c)
         /\ thrown[c].message = "afterFetch failed; review middleware.afterFetch stack"
         /\ \E i \in Events(c, "afterFetch") : thrown[c].originalError = trace[c][i].arg.threw
         /\ resp[c].jsonPayload = Undefined

\* afterFetch threw on a 5xx response, and on a 404 whose body has no data.
C12_Witness ==
  \E c \in Calls :
    /\ AfterThrew(c) /\ pc[c] = "rejected"
    /\ resp[c].status = 503 /\ resp[c].body = BodyErrors

\* The debug log entries of _logInvalidJSON, and those of _logResponse.
IsInvalidLog(e) == e.ev = "logger.debug" /\ StartsWith(e.arg.text, "Invalid Response JSON: ")
IsResponseLog(e) == e.ev = "logger.debug" /\ ~ IsInvalidLog(e)
InvalidLogs(c) == {i \in DOMAIN trace[c] : IsInvalidLog(trace[c][i])}

\* Call c got past afterFetch into the checks of lines 134-145.
ReachedClassification(c) ==
  HasResponse(c) /\ Count(c, "afterFetch") = 1 /\ ~ AfterThrew(c)

\* C13: a call that reaches the status/content classification with a status
\* below 500 and other than 422 rejects with a ResponseError when the parsed
\* body has no top-level data field ("record not found" on 404, otherwise
\* the generic "invalid json" after one debug log of the invalid body), and
\* succeeds when the parsed body has one.
C13_DataPresenceCheck ==
  \A c \in Calls :
    ReachedClassification(c) /\ resp[c].status < 500 /\ resp[c].status # 422 =>
      IF DataUndefined(CloneJson(resp[c]).value)
      THEN /\ pc[c] = "rejected"
           /\ thrown[c].kind = "ResponseError"
           /\ thrown[c].response = ResponseRef(c)
           /\ IF resp[c].status = 404
              THEN thrown[c].message = "record not found"
              ELSE thrown[c].message = "invalid json" /\ Cardinality(InvalidLogs(c)) = 1
      ELSE /\ pc[c] \in {"awaitHandle", "resolved"}
           /\ thrown[c] = NoError
           /\ resp[c].jsonPayload = CloneJson(resp[c]).value

\* The steps of a call, in the order the pipeline is to take them.
StepRank(e) ==
  CASE e.ev = "logger.info" -> 1
    [] e.ev = "beforeFetch" -> 2
    [] e.ev = "fetch" -> 3
    [] e.ev = "json" -> 4
    [] e.ev = "afterFetch" -> 5
    [] e.ev = "decorate" -> 6
    [] IsResponseLog(e) -> 7
    [] OTHER -> 0
IsStepEvent(e) == StepRank(e) # 0
\* The ranks of the steps call c has taken, in the order it took them.
StepsTaken(c) ==
  LET steps == SelectSeq(trace[c], IsStepEvent)
  IN  [i \in 1 .. Len(steps) |-> StepRank(steps[i])]

\* C14: a call takes its steps in the order outbound info log, beforeFetch,
\* transport call, body parse (skipped by the delete short-circuit),
\* afterFetch, classification, decoration, response debug log, each at most
\* once, and takes no step after one that failed.
C14_StepOrder ==
  \A c \in Calls :
    StepsTaken(c) =
      CASE pc[c] = "idle" -> <<>>
        [] pc[c] = "awaitFetch" -> <<1, 2, 3>>
        [] pc[c] = "awaitJson" -> <<1, 2, 3, 4>>
        [] pc[c] = "awaitHandle" ->
             IF Count(c, "json") = 0 THEN <<1, 2, 3>> ELSE <<1, 2, 3, 4, 5, 6>>
        [] pc[c] = "resolved" ->
             IF Count(c, "json") = 0 THEN <<1, 2, 3, 7>> ELSE <<1, 2, 3, 4, 5, 6, 7>>
        [] pc[c] = "rejected" /\ BeforeThrew(c) -> <<1, 2>>
        [] pc[c] = "rejected" /\ ~ BeforeThrew(c) /\ TransportRejected(c) -> <<1, 2, 3>>
        [] pc[c] = "rejected" /\ HasResponse(c) /\ ~ CloneJson(resp[c]).ok -> <<1, 2, 3, 4>>
        [] OTHER -> <<1, 2, 3, 4, 5>>

\* One call failed at afterFetch, another ran every step.
C14_Witness ==
  \E c \in Calls :
    /\ pc[c] = "resolved" /\ StepsTaken(c) = <<1, 2, 3, 4, 5, 6, 7>>
    /\ verb[c] = "DELETE"

\* A step of the pipeline changes a response object only by attaching
\* jsonPayload, once, as _handleResponse completes.
OnlyDecorates ==
  \A c \in Calls :
    HasResponse(c) =>
      /\ [resp'[c] EXCEPT !.jsonPayload = Undefined] = [resp[c] EXCEPT !.jsonPayload = Undefined]
      /\ resp'[c].jsonPayload # resp[c].jsonPayload =>
           resp[c].jsonPayload = Undefined /\ pc[c] = "awaitJson" /\ pc'[c] = "awaitHandle"

\* C15: the pipeline changes a response object only by attaching
\* jsonPayload, and only after classification has passed: a call that ended
\* with an error has a response without jsonPayload.
C15_DecorationOnlyOnSuccess ==
  /\ [](\A c \in Calls :
          HasResponse(c) =>
            /\ pc[c] = "rejected" => resp[c].jsonPayload = Undefined
            /\ resp[c].jsonPayload # Undefined =>
                 /\ ReachedClassification(c)
                 /\ Classify(resp[c].status, resp[c].jsonPayload) = "Decorate"
                 /\ resp[c].jsonPayload = CloneJson(resp[c]).value)
  /\ [][OnlyDecorates]_vars

\* A call rejected by the 404 check, its response undecorated.
C15_Witness ==
  \E c \in Calls :
    /\ pc[c] = "rejected" /\ HasResponse(c) /\ ReachedClassification(c)
    /\ resp[c].status = 404 /\ resp[c].jsonPayload = Undefined

\* C16: the pipeline never consumes the body of the original response:
\* every read it makes (json() and text()) is made on a clone taken for that
\* read, so the original body is still unread when the call has ended.
C16_ReadsOnClones ==
  \A c \in Calls :
    /\ HasResponse(c) => ~ resp[c].bodyUsed
    /\ \A i \in Events(c, "json") \cup Events(c, "text") :
         i > 1 /\ trace[c][i - 1].ev = "clone"

\* A call that read the body as JSON and then as text, and ended.
C16_Witness ==
  \E c \in Calls :
    /\ pc[c] = "rejected" /\ HasResponse(c) /\ ~ resp[c].bodyUsed
    /\ Count(c, "json") = 1 /\ Count(c, "text") = 1 /\ Count(c, "clone") = 2

\* Call c was rejected for a malformed body: the body did not parse, or it
\* parsed to a value without a top-level data field on a status that is
\* neither 422 nor 404 nor >= 500.
MalformedBodyRejection(c) ==
  /\ pc[c] = "rejected" /\ HasResponse(c)
  /\ \/ Count(c, "json") = 1 /\ ~ CloneJson(resp[c]).ok
     \/ /\ ReachedClassification(c)
        /\ resp[c].status \notin {422, 404} /\ resp[c].status < 500
        /\ DataUndefined(CloneJson(resp[c]).value)

\* C17: a call rejected for a malformed body has emitted exactly one debug
\* log entry for the invalid body, as the last thing before the error was
\* raised.
C17_InvalidBodyLogged ==
  \A c \in Calls :
    MalformedBodyRejection(c) =>
      /\ Cardinality(InvalidLogs(c)) = 1
      /\ IsInvalidLog(trace[c][Len(trace[c])])

\* C18: a RequestError (no response field) is the outcome only of a call
\* that never invoked the transport, a ResponseError (response field
\* present, possibly null) only of a call that invoked it; and a call
\* invokes the transport, beforeFetch and afterFetch at most once each.
C18_ErrorKindsByNetworkAttempt ==
  \A c \in Calls :
    /\ thrown[c].kind = "RequestError" =>
         Count(c, "fetch") = 0 /\ "response" \notin DOMAIN thrown[c]
    /\ thrown[c].kind = "ResponseError" =>
         Count(c, "fetch") = 1 /\ "response" \in DOMAIN thrown[c]
    /\ Count(c, "fetch") <= 1
    /\ Count(c, "beforeFetch") <= 1
    /\ Count(c, "afterFetch") <= 1

\* A post-fetch error without a response: the transport was invoked and
\* failed.
C18_Witness ==
  \E c \in Calls :
    /\ thrown[c].kind = "ResponseError" /\ thrown[c].response = JNull
    /\ Count(c, "fetch") = 1 /\ Count(c, "beforeFetch") = 1

PcRank(p) ==
  CASE p = "idle" -> 0
    [] p = "awaitFetch" -> 1
    [] p = "awaitJson" -> 2
    [] p = "awaitHandle" -> 3
    [] OTHER -> 4

\* C19: when the transport call and the body read complete, every call that
\* was issued ends, resolved or rejected; a call that has not ended is
\* waiting on one of its awaits, and no step takes a call back (no loop, no
\* retry).
C19_CallsEnd ==
  /\ \A c \in Calls : Issued(c) ~> Done(c)
  /\ [](\A c \in Calls :
          Issued(c) /\ ~ Done(c) => pc[c] \in {"awaitFetch", "awaitJson", "awaitHandle"})
  /\ [][\A c \in Calls : pc'[c] # pc[c] => PcRank(pc'[c]) > PcRank(pc[c])]_vars

\* A call that went through both awaits and resolved.
C19_Witness ==
  \E c \in Calls : pc[c] = "resolved" /\ Count(c, "json") = 1

\* The method the transport of call c was invoked with, and the method
\* _handleResponse read from the options (line 110).
FetchMethod(c) == trace[c][CHOOSE i \in Events(c, "fetch") : TRUE].arg.method
MethodRead(c) == trace[c][CHOOSE i \in Events(c, "fetchResolved") : TRUE].arg.methodRead

\* The short-circuit of call c was decided by the verb it was issued with.
DecidedByOwnVerb(c) ==
  Count(c, "fetchResolved") = 1 =>
    /\ MethodRead(c) = FetchMethod(c)
    /\ MethodRead(c) = verb[c]
    /\ verb[c] # "DELETE" =>
         /\ Count(c, "json") = 1
         /\ pc[c] = "resolved" => resp[c].jsonPayload # Undefined
    /\ verb[c] = "DELETE" /\ resp[c].status \in {200, 202, 204} => Count(c, "json") = 0

\* C20 as claimed: under every interleaving, calls passed one options object
\* included, the method read at classification is the method the transport
\* was invoked with, so get, post and patch calls have their body parsed and
\* a delete is never classified as a non-delete.
C20_MethodStable == \A c \in Calls : DecidedByOwnVerb(c)

\* No options object is passed to calls of different verbs.
NoVerbClash ==
  \A c, d \in Calls : Issued(c) /\ Issued(d) /\ opt[c] = opt[d] => verb[c] = verb[d]

\* C20 amended: the same, for calls that do not share their options object
\* with a call of a different verb.
C20_MethodStableUnshared == NoVerbClash => \A c \in Calls : DecidedByOwnVerb(c)

\* Two calls on one options object, both posts, both parsed and resolved.
C20_Witness ==
  /\ Issued(1) /\ Issued(2) /\ opt[1] = opt[2]
  /\ verb[1] = "POST" /\ verb[2] = "POST"
  /\ pc[1] = "resolved" /\ pc[2] = "resolved"
  /\ resp[1].jsonPayload = DataDoc /\ resp[2].jsonPayload = DataDoc

====
